---- MODULE Spec2Model ----
(***************************************************************************)
(* ProjectReminder: the sync reconciler of server/main.py (POST /api/sync) *)
(* over the reminders table of server/database.py, and the recurrence     *)
(* instance generator of server/database.py.                              *)
(*                                                                         *)
(* Timestamps are ISO 8601 strings that the code compares as strings;     *)
(* they are modelled as naturals 1..MaxTime in that order, 0 is the empty *)
(* string (falsy in Python) and -1 is None / SQL NULL / a missing key.    *)
(***************************************************************************)
EXTENDS Integers, Sequences, FiniteSets, TLC

\* ---------------------------------------------------------------- bounds
MaxTime == 2
MaxChanges == 2
MaxInterval == 3
MaxEndCount == 3
MaxInstances == 120
MaxClock == 3
MaxRows == 3

\* ------------------------------------------------------------- constants
Ids == {"r1", "r2"}
NoId == "none"
NoText == "none"
None == -1
Empty == 0
Times == 1..MaxTime
DefaultHorizon == 90

VARIABLES
    reminders,   \* the reminders table: [byId: id -> row, nullId: rows whose id is NULL]
    sync,        \* the POST /api/sync request being served (serial specification)
    conc,        \* two POST /api/sync requests, one per client, by process
    gen,         \* the call of generate_recurrence_instances being executed
    recurrence_patterns,  \* the recurrence_patterns table and the last call on it
    http,        \* the server clock and the last HTTP exchange served
    clients      \* per sync client: the last_sync it holds and its last response

vars == <<reminders, sync, conc, gen, recurrence_patterns, http, clients>>

\* --------------------------------------------------------- data shapes
\* A row of the reminders table (the columns sync reads or writes).
Row(text, created_at, updated_at, synced_at) ==
    [text |-> text, created_at |-> created_at, updated_at |-> updated_at,
     synced_at |-> synced_at]

\* SyncChange.data: present = FALSE is JSON null; a key that is missing from
\* the dict holds NoId / NoText / None.
NoData ==
    [present |-> FALSE, id |-> NoId, text |-> NoText, created_at |-> None,
     updated_at |-> None]

Data(id, text, created_at, updated_at) ==
    [present |-> TRUE, id |-> id, text |-> text, created_at |-> created_at,
     updated_at |-> updated_at]

\* Python truthiness of Optional[dict]: None and {} are both falsy.
DictTruthy(data) ==
    /\ data.present
    /\ \/ data.id /= NoId
       \/ data.text /= NoText
       \/ data.created_at /= None
       \/ data.updated_at /= None

\* Python truthiness of Optional[str]: None and "" are both falsy.
StrTruthy(ts) == ts /= None /\ ts /= Empty

SyncChange(id, action, data, updated_at) ==
    [id |-> id, action |-> action, data |-> data, updated_at |-> updated_at]

ConflictInfo(id, client_updated_at, server_updated_at, resolution) ==
    [id |-> id, client_updated_at |-> client_updated_at,
     server_updated_at |-> server_updated_at, resolution |-> resolution]

\* ------------------------------------------------------- store operations
\* Every operator returns the table after the call, what the call returned
\* ("true", "false", or "raise" for an exception) and whether a statement
\* that changed rows was committed.
Result(db, ret, wrote) == [db |-> db, ret |-> ret, wrote |-> wrote]

Exists(db, id) == id \in DOMAIN db.byId

get_reminder_by_id(db, id) ==
    IF Exists(db, id)
    THEN [found |-> TRUE, row |-> db.byId[id]]
    ELSE [found |-> FALSE, row |-> Row(NoText, None, None, None)]

\* INSERT of the dict's keys, committed by db_execute; then return data['id'].
\* text, created_at and updated_at are NOT NULL; id is TEXT PRIMARY KEY, which
\* SQLite lets be NULL; a duplicate id violates UNIQUE.
create_reminder(db, data) ==
    LET row == Row(data.text, data.created_at, data.updated_at, None) IN
    IF data.text = NoText \/ data.created_at = None \/ data.updated_at = None
    THEN Result(db, "raise", FALSE)
    ELSE IF data.id = NoId
    THEN Result([db EXCEPT !.nullId = Append(@, row)], "raise", TRUE)
    ELSE IF Exists(db, data.id)
    THEN Result(db, "raise", FALSE)
    ELSE Result([db EXCEPT !.byId = [k \in DOMAIN db.byId \cup {data.id} |->
                                       IF k = data.id THEN row ELSE db.byId[k]]],
                "true", TRUE)

\* The row after UPDATE reminders SET <keys of data> WHERE id = ?
Patch(row, data) ==
    Row(IF data.text = NoText THEN row.text ELSE data.text,
        IF data.created_at = None THEN row.created_at ELSE data.created_at,
        IF data.updated_at = None THEN row.updated_at ELSE data.updated_at,
        row.synced_at)

update_reminder(db, id, data) ==
    LET newId == IF data.id = NoId THEN id ELSE data.id IN
    IF ~DictTruthy(data)
    THEN Result(db, "false", FALSE)
    ELSE IF ~Exists(db, id)
    THEN Result(db, "false", FALSE)
    ELSE IF newId /= id /\ Exists(db, newId)
    THEN Result(db, "raise", FALSE)
    ELSE Result([db EXCEPT !.byId = [k \in (DOMAIN db.byId \ {id}) \cup {newId} |->
                                       IF k = newId THEN Patch(db.byId[id], data)
                                       ELSE db.byId[k]]],
                "true", TRUE)

delete_reminder(db, id) ==
    IF Exists(db, id)
    THEN Result([db EXCEPT !.byId = [k \in DOMAIN db.byId \ {id} |-> db.byId[k]]],
                "true", TRUE)
    ELSE Result(db, "false", FALSE)

apply_sync_change(db, change_id, action, data) ==
    IF action = "delete"
    THEN delete_reminder(db, change_id)
    ELSE IF action = "create"
    THEN IF ~DictTruthy(data) THEN Result(db, "false", FALSE)
         ELSE create_reminder(db, data)
    ELSE IF action = "update"
    THEN IF ~DictTruthy(data) THEN Result(db, "false", FALSE)
         ELSE update_reminder(db, change_id, data)
    ELSE Result(db, "false", FALSE)

update_synced_at(db, id, synced_at) ==
    IF Exists(db, id)
    THEN [db EXCEPT !.byId[id].synced_at = synced_at]
    ELSE db

batch_update_synced_at(db, ids, synced_at) ==
    [db EXCEPT !.byId = [k \in DOMAIN db.byId |->
                           IF k \in ids
                           THEN [db.byId[k] EXCEPT !.synced_at = synced_at]
                           ELSE db.byId[k]]]

\* SELECT * FROM reminders [WHERE updated_at > ?]: the rows as (id, row) pairs;
\* a row whose id is NULL comes back with id None (NoId here).
Newer(updated_at, last_sync) == updated_at > last_sync

get_changes_since(db, last_sync) ==
    LET all == {[id |-> k, row |-> db.byId[k]] : k \in DOMAIN db.byId}
               \cup {[id |-> NoId, row |-> db.nullId[i]] : i \in DOMAIN db.nullId}
    IN IF StrTruthy(last_sync)
       THEN {r \in all : Newer(r.row.updated_at, last_sync)}
       ELSE all

\* ------------------------------------------------- sync_reminders, serial
\* Mutations of the timestamp comparison: reversed, and non-strict.
ServerNewer_reversed(server_updated_at, client_updated_at) ==
    server_updated_at < client_updated_at

ServerNewer_nonstrict(server_updated_at, client_updated_at) ==
    server_updated_at >= client_updated_at

\* "Last-write-wins: Compare timestamps" (string comparison in the code).
ServerNewer(server_updated_at, client_updated_at) ==
    server_updated_at > client_updated_at

\* The conflict detection of one change against the record read for it:
\* "server_wins", "client_wins", or "none" when no conflict is recorded.
Resolution(existing, change) ==
    IF change.action = "update" /\ existing.found
       /\ StrTruthy(existing.row.updated_at) /\ StrTruthy(change.updated_at)
    THEN IF ServerNewer(existing.row.updated_at, change.updated_at)
         THEN "server_wins"
         ELSE "client_wins"
    ELSE "none"

Conflicts(existing, change) ==
    IF Resolution(existing, change) = "none"
    THEN <<>>
    ELSE <<ConflictInfo(change.id, change.updated_at, existing.row.updated_at,
                        Resolution(existing, change))>>

\* Whether the rest of the loop body runs ("continue" on server_wins).
Applies(existing, change) == Resolution(existing, change) /= "server_wins"

\* applied_count += 1 and update_synced_at after a successful apply.
StampApplied(result, change, current_time) ==
    IF result.ret = "true" /\ change.action /= "delete"
    THEN update_synced_at(result.db, change.id, current_time)
    ELSE result.db

\* Where the loop goes after a change raised: "except Exception ... continue".
AfterException == "loop"

\* The changes a client may submit for one id.
ChangesFor(i) ==
    {SyncChange(i, "delete", NoData, 1)}
    \cup {SyncChange(i, "create", d, 1) :
            d \in {NoData, Data(i, "c", 1, 1), Data(NoId, "c", 1, 1)}}
    \cup {SyncChange(i, "update", d, MaxTime) :
            d \in {NoData, Data(NoId, NoText, None, None)}}
    \cup {SyncChange(i, "update", Data(NoId, "c", None, None), t) : t \in 0..MaxTime}
    \cup {SyncChange(i, "update", Data(NoId, "c", None, t), t) : t \in Times}
    \cup {SyncChange(i, "update", Data(j, "c", None, None), MaxTime) : j \in Ids \ {i}}

Changes == UNION {ChangesFor(i) : i \in Ids}

LastSyncs == {None} \cup Times

\* The tables a request may find: any subset of the ids stored by earlier
\* requests, never synced.
Tables ==
    UNION {[byId : [D -> {Row("s", 1, u, None) : u \in Times}], nullId : {<<>>}] :
             D \in SUBSET Ids}

IdleSync ==
    [pc |-> "idle", last_sync |-> None, current_time |-> None, changes |-> <<>>,
     log |-> <<>>, applied_count |-> 0, conflicts |-> <<>>,
     server_changes |-> {}, status |-> 0]

IdleConc == [p \in {1, 2} |-> [pc |-> "idle"]]

IdleGen == [pc |-> "idle"]

\* The recurrence_patterns table: [byId: id -> row, last: the last call on it].
PatternIds == {"p1", "p2"}

NoCall == [op |-> "none"]

NoPatterns == [byId |-> <<>>, last |-> NoCall]

\* No HTTP exchange is modelled: the clock stands at 0.
IdleHttp == [pc |-> "idle", now |-> 0, last |-> NoCall]

\* No sync client is modelled.
NoClients == <<>>

Init ==
    /\ http = IdleHttp
    /\ clients = NoClients
    /\ recurrence_patterns = NoPatterns
    /\ reminders \in Tables
    /\ sync = IdleSync
    /\ conc = IdleConc
    /\ gen = IdleGen

\* current_time = get_current_timestamp(); conflicts = []; applied_count = 0
StartSync ==
    /\ sync.pc = "idle"
    /\ \E ls \in LastSyncs :
         sync' = [sync EXCEPT !.pc = "loop", !.last_sync = ls,
                              !.current_time = MaxTime]
    /\ UNCHANGED <<clients, http, recurrence_patterns, reminders, conc, gen>>

\* A change the store can apply in the state it is processed in: a create of
\* a complete record under a fresh id, an update with a payload of a stored
\* record that does not lose the conflict, a delete of a stored record.
WellFormed(db, change) ==
    LET data == change.data IN
    CASE change.action = "create" ->
           /\ DictTruthy(data)
           /\ data.text /= NoText /\ data.created_at /= None /\ data.updated_at /= None
           /\ data.id = change.id
           /\ ~Exists(db, change.id)
      [] change.action = "update" ->
           /\ DictTruthy(data)
           /\ Exists(db, change.id)
           /\ ~(StrTruthy(change.updated_at)
                /\ db.byId[change.id].updated_at > change.updated_at)
           /\ (data.id \in {NoId, change.id} \/ ~Exists(db, data.id))
      [] OTHER -> Exists(db, change.id)

\* One iteration of "for change in sync_request.changes".
ProcessChange(change) ==
    /\ sync.pc = "loop"
    /\ Len(sync.changes) < MaxChanges
    /\ LET existing == get_reminder_by_id(reminders, change.id)
           result == IF Applies(existing, change)
                     THEN apply_sync_change(reminders, change.id, change.action,
                                            change.data)
                     ELSE Result(reminders, "skipped", FALSE)
       IN /\ reminders' = StampApplied(result, change, sync.current_time)
          /\ sync' = [sync EXCEPT
                        !.pc = IF result.ret = "raise" THEN AfterException ELSE "loop",
                        !.changes = Append(@, change),
                        !.log = Append(@, [ret |-> result.ret, wrote |-> result.wrote,
                                           valid |-> WellFormed(reminders, change)]),
                        !.applied_count = IF result.ret = "true" THEN @ + 1 ELSE @,
                        !.conflicts = @ \o Conflicts(existing, change)]
    /\ UNCHANGED <<clients, http, recurrence_patterns, conc, gen>>

\* The ids of the changes of the batch.
BatchIds(changes) == {changes[i].id : i \in DOMAIN changes}

\* A mutation of the delta: the records of the batch are echoed back.
Delivered_echo(server_reminders, changes) == server_reminders

\* Steps 2-4: the server delta.  Building SyncChange(id=None, ...) for a row
\* whose id is NULL fails validation, and the handler answers 500.
Delivered(server_reminders, changes) ==
    {r \in server_reminders : r.id \notin BatchIds(changes)}

FinishSync ==
    /\ sync.pc = "loop"
    /\ LET server_reminders == get_changes_since(reminders, sync.last_sync)
           delivered == Delivered(server_reminders, sync.changes)
       IN IF \E r \in delivered : r.id = NoId
          THEN /\ sync' = [sync EXCEPT !.pc = "done", !.status = 500]
               /\ UNCHANGED reminders
          ELSE /\ sync' = [sync EXCEPT
                             !.pc = "done", !.status = 200,
                             !.server_changes =
                                 {SyncChange(r.id, "update", r.row, r.row.updated_at) :
                                    r \in delivered}]
               /\ reminders' = batch_update_synced_at(reminders,
                                   {r.id : r \in delivered}, sync.current_time)
    /\ UNCHANGED <<clients, http, recurrence_patterns, conc, gen>>

Next ==
    \/ StartSync
    \/ \E change \in Changes : ProcessChange(change)
    \/ FinishSync

Spec == Init /\ [][Next]_vars

TypeOK ==
    /\ sync.pc \in {"idle", "loop", "done"}
    /\ sync.applied_count \in 0..MaxChanges
    /\ Len(sync.conflicts) <= MaxChanges


\* ------------------------------------- sync_reminders, two requests
\* Two clients each submit one update of record r1.  Every store call of the
\* handler (db_query, db_execute) opens its own connection and commits on its
\* own, so a step of a request is one store call; nothing in the handler
\* holds a transaction or a lock across the read and the write.
Procs == {1, 2}

Other(p) == 3 - p

ClientText(p) == IF p = 1 THEN "a" ELSE "b"

\* The update of client p stamped t, with or without updated_at in its payload.
ClientUpdate(p, t, u) ==
    SyncChange("r1", "update", Data(NoId, ClientText(p), None, u), t)

Request(change) ==
    [pc |-> "start", change |-> change,
     existing |-> [found |-> FALSE, row |-> Row(NoText, None, None, None)],
     ret |-> "none", applied_count |-> 0, conflicts |-> <<>>,
     server_changes |-> {}, current_time |-> MaxTime, last_sync |-> None]

StoredR1 ==
    {[byId |-> [k \in {"r1"} |-> Row("s", 1, u, None)], nullId |-> <<>>] : u \in Times}

\* Two requests served one after the other; payloads as the clients of the
\* test suite send them (no updated_at) or carrying the change's timestamp.
InitLww ==
    /\ http = IdleHttp
    /\ clients = NoClients
    /\ recurrence_patterns = NoPatterns
    /\ reminders \in StoredR1
    /\ sync = IdleSync
    /\ gen = IdleGen
    /\ \E t1, t2 \in Times :
         \E u1 \in {None, t1}, u2 \in {None, t2} :
            conc = [p \in Procs |->
                      Request(IF p = 1 THEN ClientUpdate(1, t1, u1)
                              ELSE ClientUpdate(2, t2, u2))]

\* Two requests served concurrently; every payload carries the timestamp of
\* its change.
InitConc ==
    /\ http = IdleHttp
    /\ clients = NoClients
    /\ recurrence_patterns = NoPatterns
    /\ reminders \in StoredR1
    /\ sync = IdleSync
    /\ gen = IdleGen
    /\ \E t1, t2 \in Times :
         conc = [p \in Procs |->
                   Request(IF p = 1 THEN ClientUpdate(1, t1, t1)
                           ELSE ClientUpdate(2, t2, t2))]

\* The request of p arrives while no other request is being served.
BeginSerial(p) ==
    /\ conc[p].pc = "start"
    /\ conc[Other(p)].pc \in {"start", "done"}
    /\ conc' = [conc EXCEPT ![p].pc = "fetch"]
    /\ UNCHANGED <<clients, http, recurrence_patterns, reminders, sync, gen>>

\* The request of p arrives, whatever the other request is doing.
BeginConc(p) ==
    /\ conc[p].pc = "start"
    /\ conc' = [conc EXCEPT ![p].pc = "fetch"]
    /\ UNCHANGED <<clients, http, recurrence_patterns, reminders, sync, gen>>

\* existing = db.get_reminder_by_id(change.id)
Fetch(p) ==
    /\ conc[p].pc = "fetch"
    /\ conc' = [conc EXCEPT ![p].pc = "apply",
                            ![p].existing = get_reminder_by_id(reminders, conc[p].change.id)]
    /\ UNCHANGED <<clients, http, recurrence_patterns, reminders, sync, gen>>

\* The conflict check on the record read by Fetch, then db.apply_sync_change.
Apply(p) ==
    /\ conc[p].pc = "apply"
    /\ LET change == conc[p].change
           existing == conc[p].existing
           result == IF Applies(existing, change)
                     THEN apply_sync_change(reminders, change.id, change.action,
                                            change.data)
                     ELSE Result(reminders, "skipped", FALSE)
       IN /\ reminders' = result.db
          /\ conc' = [conc EXCEPT
                        ![p].pc = IF result.ret = "true" /\ change.action /= "delete"
                                  THEN "stamp" ELSE "delta",
                        ![p].ret = result.ret,
                        ![p].applied_count = IF result.ret = "true" THEN @ + 1 ELSE @,
                        ![p].conflicts = @ \o Conflicts(existing, change)]
    /\ UNCHANGED <<clients, http, recurrence_patterns, sync, gen>>

\* db.update_synced_at(change.id, current_time)
Stamp(p) ==
    /\ conc[p].pc = "stamp"
    /\ reminders' = update_synced_at(reminders, conc[p].change.id, conc[p].current_time)
    /\ conc' = [conc EXCEPT ![p].pc = "delta"]
    /\ UNCHANGED <<clients, http, recurrence_patterns, sync, gen>>

\* Steps 2-4 of the handler for a batch of one change.
Delta(p) ==
    /\ conc[p].pc = "delta"
    /\ LET delivered == Delivered(get_changes_since(reminders, conc[p].last_sync),
                                  <<conc[p].change>>)
       IN /\ conc' = [conc EXCEPT
                        ![p].pc = "done",
                        ![p].server_changes =
                            {SyncChange(r.id, "update", r.row, r.row.updated_at) :
                               r \in delivered}]
          /\ reminders' = batch_update_synced_at(reminders, {r.id : r \in delivered},
                                                 conc[p].current_time)
    /\ UNCHANGED <<clients, http, recurrence_patterns, sync, gen>>

NextLww ==
    \/ \E p \in Procs : BeginSerial(p)
    \/ \E p \in Procs : Fetch(p)
    \/ \E p \in Procs : Apply(p)
    \/ \E p \in Procs : Stamp(p)
    \/ \E p \in Procs : Delta(p)

SpecLww == InitLww /\ [][NextLww]_vars

NextConc ==
    \/ \E p \in Procs : BeginConc(p)
    \/ \E p \in Procs : Fetch(p)
    \/ \E p \in Procs : Apply(p)
    \/ \E p \in Procs : Stamp(p)
    \/ \E p \in Procs : Delta(p)

SpecConc == InitConc /\ [][NextConc]_vars

\* ------------------------------------------------ datetime.date arithmetic
Date(y, m, d) == [year |-> y, month |-> m, day |-> d]

\* A missing date (None, or a key that is not in the dict).
NoDate == Date(0, 0, 0)

IsLeap(y) == y % 4 = 0 /\ (y % 100 /= 0 \/ y % 400 = 0)

DaysInMonth(y, m) ==
    IF m = 2 THEN (IF IsLeap(y) THEN 29 ELSE 28)
    ELSE IF m \in {4, 6, 9, 11} THEN 30 ELSE 31

\* date(y, m, d) raises ValueError unless this holds.
ValidDate(y, m, d) ==
    /\ y \in 1..9999
    /\ m \in 1..12
    /\ d \in 1..DaysInMonth(y, m)

DaysBeforeYear(y) ==
    (y - 1) * 365 + ((y - 1) \div 4) - ((y - 1) \div 100) + ((y - 1) \div 400)

DaysBeforeMonth(y, m) ==
    <<0, 31, 59, 90, 120, 151, 181, 212, 243, 273, 304, 334>>[m]
    + (IF m > 2 /\ IsLeap(y) THEN 1 ELSE 0)

\* date.toordinal()
Ord(date) == DaysBeforeYear(date.year) + DaysBeforeMonth(date.year, date.month) + date.day

\* date.weekday(): Monday is 0, Sunday is 6.
Weekday(date) == (Ord(date) + 6) % 7

\* date.fromordinal(n), as datetime._ord2ymd computes it.
FromOrdinal(ordinal) ==
    LET n0 == ordinal - 1
        n400 == n0 \div 146097
        r400 == n0 % 146097
        n100 == r400 \div 36524
        r100 == r400 % 36524
        n4 == r100 \div 1461
        r4 == r100 % 1461
        n1 == r4 \div 365
        n == r4 % 365
        year == n400 * 400 + 1 + n100 * 100 + n4 * 4 + n1
        guess == (n + 50) \div 32
        before == DaysBeforeMonth(year, guess)
        month == IF before > n THEN guess - 1 ELSE guess
        preceding == DaysBeforeMonth(year, month)
    IN IF n1 = 4 \/ n100 = 4
       THEN Date(year - 1, 12, 31)
       ELSE Date(year, month, n - preceding + 1)

\* date + timedelta(days=n)
AddDays(date, n) == FromOrdinal(Ord(date) + n)

NextDay(date) == AddDays(date, 1)

\* --------------------------------------- generate_recurrence_instances
\* Python truthiness of Optional[int]: None and 0 are both falsy.
IntTruthy(n) == n /= None /\ n /= 0

\* A mutation of the end date: the later of the two dates.
EndDate_later(horizon_end, pattern_end) ==
    IF pattern_end /= NoDate /\ Ord(pattern_end) > Ord(horizon_end)
    THEN pattern_end
    ELSE horizon_end

\* end_date = min(horizon_end, pattern_end) if pattern_end else horizon_end
EndDate(horizon_end, pattern_end) ==
    IF pattern_end /= NoDate /\ Ord(pattern_end) < Ord(horizon_end)
    THEN pattern_end
    ELSE horizon_end

\* A mutation of the end_count test: one instance too late.
CountReached_late(end_count, instance_count) ==
    IntTruthy(end_count) /\ instance_count > end_count

\* if end_count and instance_count >= end_count: break
CountReached(end_count, instance_count) ==
    IntTruthy(end_count) /\ instance_count >= end_count

\* The weekly and the monthly filter: the candidate date is passed over.
Filtered(g) ==
    \/ /\ g.frequency = "weekly"
       /\ g.days_of_week /= {}
       /\ Weekday(g.current_date) \notin g.days_of_week
    \/ /\ g.frequency = "monthly"
       /\ IntTruthy(g.day_of_month)
       /\ g.current_date.day /= g.day_of_month

\* "Advance to next occurrence": the next candidate date, or ok = FALSE when
\* the date arithmetic raises.
Raised == [ok |-> FALSE, date |-> NoDate]

Advanced(date) == [ok |-> TRUE, date |-> date]

AdvanceWeekly(current_date, start_date, interval) ==
    LET next == NextDay(current_date) IN
    IF Weekday(next) = Weekday(start_date) /\ interval > 1
    THEN AddDays(next, 7 * (interval - 1))
    ELSE next

\* month = current_date.month + interval; while month > 12: month -= 12; year += 1
MonthsAhead(current_date, interval) ==
    LET m == current_date.month + interval IN
    IF m > 12
    THEN [year |-> current_date.year + ((m - 1) \div 12), month |-> ((m - 1) % 12) + 1]
    ELSE [year |-> current_date.year, month |-> m]

\* date(year, month, day), and on ValueError the last day of that month;
\* calendar.monthrange raises for a month outside 1..12.
AdvanceMonthly(current_date, interval) ==
    LET t == MonthsAhead(current_date, interval) IN
    IF ValidDate(t.year, t.month, current_date.day)
    THEN Advanced(Date(t.year, t.month, current_date.day))
    ELSE IF t.month \in 1..12 /\ t.year \in 1..9999
    THEN Advanced(Date(t.year, t.month, DaysInMonth(t.year, t.month)))
    ELSE Raised

\* date(current_date.year + interval, current_date.month, current_date.day)
AdvanceYearly(current_date, interval) ==
    IF ValidDate(current_date.year + interval, current_date.month, current_date.day)
    THEN Advanced(Date(current_date.year + interval, current_date.month,
                       current_date.day))
    ELSE Raised

\* A mutation of the daily step: one day whatever the interval.
AdvanceDaily_one(current_date, interval) == AddDays(current_date, 1)

\* current_date += timedelta(days=interval)
AdvanceDaily(current_date, interval) == AddDays(current_date, interval)

Advance(g) ==
    CASE g.frequency = "daily" -> Advanced(AdvanceDaily(g.current_date, g.interval))
      [] g.frequency = "weekly" ->
           Advanced(AdvanceWeekly(g.current_date, g.start_date, g.interval))
      [] g.frequency = "monthly" -> AdvanceMonthly(g.current_date, g.interval)
      [] g.frequency = "yearly" -> AdvanceYearly(g.current_date, g.interval)
      [] OTHER -> Advanced(g.current_date)

\* The row inserted for an occurrence: a copy of base_reminder under a fresh
\* id with the candidate date as due_date.
Instance(g) ==
    [id |-> Len(g.generated_ids) + 1, due_date |-> g.current_date,
     recurrence_id |-> g.base_recurrence_id]

\* The calls explored: date.today() is Tuesday 2024-01-30.
Today == Date(2024, 1, 30)

Frequencies == {"daily", "weekly", "monthly", "yearly"}

Intervals == 1..MaxInterval

EndCounts == {None} \cup 1..MaxEndCount

PatternEnds == {NoDate, Date(2024, 1, 20), Date(2024, 2, 9), Date(2024, 3, 31)}

Horizons == {10, DefaultHorizon}

\* base_reminder['due_date']; a yearly pattern may start years back.
StartDates(frequency) ==
    IF frequency = "yearly"
    THEN {NoDate, Date(2020, 2, 29), Date(2023, 2, 28), Date(2024, 2, 29)}
    ELSE {NoDate, Date(2024, 1, 15), Date(2024, 1, 31), Date(2024, 2, 29)}

\* pattern['days_of_week'] as the set of the numbers in the string.
DaysOfWeek(frequency) ==
    IF frequency = "weekly" THEN {{}, {0}, {0, 2, 4}} ELSE {{}}

DaysOfMonth(frequency) ==
    IF frequency = "monthly" THEN {None, 15, 31} ELSE {None}

\* base_reminder.get('recurrence_id'): absent, the pattern expanded, another.
BaseRecurrenceIds == {NoId} \cup PatternIds

\* A row of the recurrence_patterns table.
PatternRow(frequency, interval, days_of_week, day_of_month, end_date, end_count) ==
    [frequency |-> frequency, interval |-> interval, days_of_week |-> days_of_week,
     day_of_month |-> day_of_month, end_date |-> end_date, end_count |-> end_count]

\* The table after create_recurrence_pattern(pattern_id, ...).
StoredPattern(pattern_id, row) ==
    [byId |-> (pattern_id :> row), last |-> NoCall]

\* The state at the first test of the while loop.
StartGen(frequency, interval, end_count, pattern_end, days_of_week, day_of_month, due_date, recurrence_id, horizon_days) ==
    LET start_date == IF due_date /= NoDate THEN due_date ELSE Today
        horizon_end == AddDays(Today, horizon_days)
    IN [pc |-> "loop",
        frequency |-> frequency, interval |-> interval, end_count |-> end_count,
        pattern_end |-> pattern_end, days_of_week |-> days_of_week,
        day_of_month |-> day_of_month, pattern_id |-> "p1",
        base_recurrence_id |-> recurrence_id, horizon_days |-> horizon_days,
        start_date |-> start_date,
        end_date |-> EndDate(horizon_end, pattern_end),
        current_date |-> start_date, instance_count |-> 0,
        generated_ids |-> <<>>, inserted |-> <<>>, committed |-> <<>>]

InitGen ==
    /\ http = IdleHttp
    /\ clients = NoClients
    /\ reminders = [byId |-> <<>>, nullId |-> <<>>]
    /\ sync = IdleSync
    /\ conc = IdleConc
    /\ \E f \in Frequencies, k \in Intervals, n \in EndCounts, e \in PatternEnds,
          h \in Horizons, b \in BaseRecurrenceIds :
         \E w \in DaysOfWeek(f), m \in DaysOfMonth(f), s \in StartDates(f) :
            /\ gen = StartGen(f, k, n, e, w, m, s, b, h)
            /\ recurrence_patterns = StoredPattern("p1", PatternRow(f, k, w, m, e, n))

\* A mutation of the loop test: the end date itself is left out.
InRange_strict(g) == Ord(g.current_date) < Ord(g.end_date)

\* while current_date <= end_date
InRange(g) == Ord(g.current_date) <= Ord(g.end_date)

\* The loop condition fails: conn.commit() and return generated_ids.
GenExit ==
    /\ gen.pc = "loop"
    /\ ~InRange(gen)
    /\ gen' = [gen EXCEPT !.pc = "done", !.committed = gen.inserted]
    /\ UNCHANGED <<clients, http, recurrence_patterns, reminders, sync, conc>>

\* The end_count break, then conn.commit() and return generated_ids.
GenBreak ==
    /\ gen.pc = "loop"
    /\ InRange(gen)
    /\ CountReached(gen.end_count, gen.instance_count)
    /\ gen' = [gen EXCEPT !.pc = "done", !.committed = gen.inserted]
    /\ UNCHANGED <<clients, http, recurrence_patterns, reminders, sync, conc>>

\* The candidate date fails the weekly or the monthly filter.
GenSkip ==
    /\ gen.pc = "loop"
    /\ InRange(gen)
    /\ ~CountReached(gen.end_count, gen.instance_count)
    /\ Filtered(gen)
    /\ gen' = [gen EXCEPT !.current_date = NextDay(@)]
    /\ UNCHANGED <<clients, http, recurrence_patterns, reminders, sync, conc>>

\* An instance is inserted and the candidate date advances. (A call is
\* followed for MaxInstances inserts, more than any call with a positive
\* interval and a known frequency makes within the horizons explored.)
GenEmit ==
    /\ gen.pc = "loop"
    /\ InRange(gen)
    /\ ~CountReached(gen.end_count, gen.instance_count)
    /\ ~Filtered(gen)
    /\ Advance(gen).ok
    /\ gen.instance_count < MaxInstances
    /\ gen' = [gen EXCEPT !.generated_ids = Append(@, Instance(gen).id),
                          !.inserted = Append(@, Instance(gen)),
                          !.instance_count = @ + 1,
                          !.current_date = Advance(gen).date]
    /\ UNCHANGED <<clients, http, recurrence_patterns, reminders, sync, conc>>

\* A mutation of the exception path: the transaction is committed, not
\* rolled back, before the exception goes to the caller.
GenRaise_commit ==
    /\ gen.pc = "loop"
    /\ InRange(gen)
    /\ ~CountReached(gen.end_count, gen.instance_count)
    /\ ~Filtered(gen)
    /\ ~Advance(gen).ok
    /\ gen' = [gen EXCEPT !.pc = "raised",
                          !.committed = Append(gen.inserted, Instance(gen)),
                          !.instance_count = @ + 1]
    /\ UNCHANGED <<clients, http, recurrence_patterns, reminders, sync, conc>>

\* An instance is inserted and the date arithmetic raises: conn.rollback()
\* and the exception goes to the caller.
GenRaise ==
    /\ gen.pc = "loop"
    /\ InRange(gen)
    /\ ~CountReached(gen.end_count, gen.instance_count)
    /\ ~Filtered(gen)
    /\ ~Advance(gen).ok
    /\ gen' = [gen EXCEPT !.pc = "raised", !.inserted = <<>>,
                          !.instance_count = @ + 1]
    /\ UNCHANGED <<clients, http, recurrence_patterns, reminders, sync, conc>>

NextGen ==
    \/ GenExit
    \/ GenBreak
    \/ GenSkip
    \/ GenEmit
    \/ GenRaise

SpecGen == InitGen /\ [][NextGen]_vars

\* Direct calls of generate_recurrence_instances with a pattern dict that did
\* not pass RecurrencePatternCreate: any frequency string, any interval.
DirectFrequencies == Frequencies \cup {"hourly"}

DirectIntervals == {-1, 0, 1}

DirectHorizon == 10

InitGenDirect ==
    /\ http = IdleHttp
    /\ clients = NoClients
    /\ reminders = [byId |-> <<>>, nullId |-> <<>>]
    /\ sync = IdleSync
    /\ conc = IdleConc
    /\ recurrence_patterns = NoPatterns
    /\ \E f \in DirectFrequencies, k \in DirectIntervals, n \in EndCounts :
         \E w \in DaysOfWeek(f), m \in DaysOfMonth(f), s \in StartDates(f) :
            gen = StartGen(f, k, n, NoDate, w, m, s, "p1", DirectHorizon)

SpecGenDirect == InitGenDirect /\ [][NextGen]_vars

\* ------------------------------------------------ recurrence pattern store
\* A row of the reminders table with its recurrence_id column.
LinkedRow(text, recurrence_id) ==
    [text |-> text, created_at |-> 1, updated_at |-> 1, synced_at |-> None,
     recurrence_id |-> recurrence_id]

\* UPDATE reminders SET recurrence_id = NULL WHERE recurrence_id = ?
Unlinked(row, pattern_id) ==
    IF row.recurrence_id = pattern_id THEN [row EXCEPT !.recurrence_id = NoId] ELSE row

Referencing(db, pattern_id) ==
    {i \in DOMAIN db.byId : db.byId[i].recurrence_id = pattern_id}

\* create_recurrence_pattern: the INSERT, or the exception of a duplicate id.
create_recurrence_pattern(patterns, pattern_id, row) ==
    IF pattern_id \in DOMAIN patterns.byId
    THEN [patterns EXCEPT !.last = [op |-> "create_recurrence_pattern",
                                    pattern_id |-> pattern_id, ret |-> "raise"]]
    ELSE [byId |-> [q \in DOMAIN patterns.byId \cup {pattern_id} |->
                      IF q = pattern_id THEN row ELSE patterns.byId[q]],
          last |-> [op |-> "create_recurrence_pattern",
                    pattern_id |-> pattern_id, ret |-> pattern_id]]

\* A mutation of the deletion: the reminders of the pattern go with it.
delete_recurrence_pattern_cascade(db, patterns, pattern_id) ==
    [reminders |->
        [db EXCEPT !.byId = [i \in DOMAIN db.byId \ Referencing(db, pattern_id) |->
                                db.byId[i]]],
     patterns |->
        [byId |-> [q \in DOMAIN patterns.byId \ {pattern_id} |-> patterns.byId[q]],
         last |-> [op |-> "delete_recurrence_pattern", pattern_id |-> pattern_id,
                   unlinked |-> Referencing(db, pattern_id),
                   ret |-> pattern_id \in DOMAIN patterns.byId]]]

\* delete_recurrence_pattern: the UPDATE that unlinks, the DELETE of the
\* pattern, one commit; returns whether the DELETE found the row.
delete_recurrence_pattern(db, patterns, pattern_id) ==
    [reminders |->
        [byId |-> [i \in DOMAIN db.byId |-> Unlinked(db.byId[i], pattern_id)],
         nullId |-> [n \in DOMAIN db.nullId |-> Unlinked(db.nullId[n], pattern_id)]],
     patterns |->
        [byId |-> [q \in DOMAIN patterns.byId \ {pattern_id} |-> patterns.byId[q]],
         last |-> [op |-> "delete_recurrence_pattern", pattern_id |-> pattern_id,
                   unlinked |-> Referencing(db, pattern_id),
                   ret |-> pattern_id \in DOMAIN patterns.byId]]]

\* The reminders tables explored: each id absent, or stored with no
\* recurrence_id or with the id of a pattern (the column has no foreign key).
LinkedTables ==
    {[byId |-> f, nullId |-> <<>>] :
        f \in UNION {[S -> {LinkedRow(t, b) : t \in {"a"}, b \in BaseRecurrenceIds}] :
                        S \in SUBSET Ids}}

InitRecur ==
    /\ http = IdleHttp
    /\ clients = NoClients
    /\ reminders \in LinkedTables
    /\ recurrence_patterns = NoPatterns
    /\ sync = IdleSync
    /\ conc = IdleConc
    /\ gen = IdleGen

CreatePattern(pattern_id, frequency) ==
    /\ recurrence_patterns' =
          create_recurrence_pattern(recurrence_patterns, pattern_id,
                                    PatternRow(frequency, 1, {}, None, NoDate, None))
    /\ UNCHANGED <<clients, http, reminders, sync, conc, gen>>

DeletePattern(pattern_id) ==
    LET r == delete_recurrence_pattern(reminders, recurrence_patterns, pattern_id)
    IN /\ reminders' = r.reminders
       /\ recurrence_patterns' = r.patterns
       /\ UNCHANGED <<clients, http, sync, conc, gen>>

NextRecur ==
    \/ \E p \in PatternIds, f \in {"daily", "monthly"} : CreatePattern(p, f)
    \/ \E p \in PatternIds : DeletePattern(p)

SpecRecur == InitRecur /\ [][NextRecur]_vars

\* ----------------------------------------------------- REST endpoints
\* The reminders of this part carry the columns the endpoints read or write;
\* ids are uuids, modelled as 1, 2, ... in the order they are generated.
ApiRow(text, due_date, status, completed_at, time_required, location_radius, recurrence_id, created_at, updated_at, synced_at) ==
    [text |-> text, due_date |-> due_date, status |-> status,
     completed_at |-> completed_at, time_required |-> time_required,
     location_radius |-> location_radius, recurrence_id |-> recurrence_id,
     created_at |-> created_at, updated_at |-> updated_at, synced_at |-> synced_at]

Statuses == {"pending", "completed", "snoozed"}

\* "time_required": 1 if reminder.time_required else 0 (JSON null is falsy).
StoredBool(b) == IF b = "true" THEN 1 ELSE 0

\* ReminderResponse.time_required: bool, read from the INTEGER column.
JsonBool(n) == IF n /= 0 THEN "true" ELSE "false"

\* ReminderResponse(**row) validates: location_radius is declared int, so a
\* row whose location_radius is NULL raises ValidationError.
Validates(row) == row.location_radius /= None

ReminderResponse(id, row) ==
    [id |-> id, text |-> row.text, due_date |-> row.due_date, status |-> row.status,
     completed_at |-> row.completed_at, time_required |-> JsonBool(row.time_required),
     location_radius |-> row.location_radius, recurrence_id |-> row.recurrence_id,
     created_at |-> row.created_at, updated_at |-> row.updated_at,
     synced_at |-> row.synced_at]

NoBody == [id |-> 0]

\* The exchange served last: the request, the status code and the body.
Exchange(op, id, request, status, body) ==
    [op |-> op, id |-> id, request |-> request, status |-> status, body |-> body]

\* ReminderCreate as parsed from the JSON body.
NoRecurrence == [frequency |-> "none"]

ReminderCreate(text, due_date, status, time_required, location_radius, recurrence_pattern) ==
    [text |-> text, due_date |-> due_date, status |-> status,
     time_required |-> time_required, location_radius |-> location_radius,
     recurrence_pattern |-> recurrence_pattern]

\* The fields of a create request that the response echoes.
Submitted == {"text", "due_date", "status", "time_required", "location_radius"}

PlainCreates ==
    {ReminderCreate("t", NoDate, st, tr, lr, NoRecurrence) :
        st \in {"pending", "completed"}, tr \in {"null", "true", "false"},
        lr \in {None, 50}}

\* The end_count of the recurring request that generates instances.
RecurringCount == 2

\* Requests with an embedded pattern: two that generate RecurringCount
\* instances, one whose start date is beyond the horizon, one that starts on
\* Feb 29.
RecurringCreates ==
    {ReminderCreate("t", NoDate, "pending", "false", 50,
                    PatternRow("daily", 1, {}, None, NoDate, RecurringCount)),
     ReminderCreate("t", NoDate, "pending", "false", 50,
                    PatternRow("weekly", 1, {0}, None, NoDate, RecurringCount)),
     ReminderCreate("t", Date(2024, 6, 1), "pending", "false", 50,
                    PatternRow("daily", 1, {}, None, NoDate, None)),
     ReminderCreate("t", Date(2024, 2, 29), "pending", "false", 50,
                    PatternRow("yearly", 1, {}, None, NoDate, None))}

\* generate_uuid()
FreshId(db) == Cardinality(DOMAIN db.byId) + 1

FreshPatternId(patterns) == CHOOSE q \in PatternIds \ DOMAIN patterns.byId : TRUE

\* "Build reminder data dictionary"
reminder_data(reminder, pattern_id, current_time) ==
    ApiRow(reminder.text, reminder.due_date, reminder.status, None,
           StoredBool(reminder.time_required), reminder.location_radius,
           pattern_id, current_time, current_time, None)

Insert(db, id, row) ==
    [db EXCEPT !.byId = [k \in DOMAIN db.byId \cup {id} |->
                           IF k = id THEN row ELSE db.byId[k]]]

\* Python dicts as functions from keys: d[k] = v, k in d, d.get(k).
Put(d, k, v) == [f \in DOMAIN d \cup {k} |-> IF f = k THEN v ELSE d[f]]

Has(d, k) == k \in DOMAIN d

\* UPDATE reminders SET <keys of update_data> WHERE id = ?
UpdateSet(db, id, update_data) ==
    [db EXCEPT !.byId[id] = [f \in DOMAIN @ |->
                               IF Has(update_data, f) THEN update_data[f] ELSE @[f]]]

InitApi ==
    /\ http = [pc |-> "idle", now |-> 0, last |-> NoCall]
    /\ clients = NoClients
    /\ reminders = [byId |-> <<>>, nullId |-> <<>>]
    /\ recurrence_patterns = NoPatterns
    /\ sync = IdleSync
    /\ conc = IdleConc
    /\ gen = IdleGen

\* POST /api/reminders without recurrence_pattern: the INSERT, then the
\* response model built from the dict; an exception answers 500.
PostReminder(reminder) ==
    /\ http.pc = "idle"
    /\ http.now < MaxClock
    /\ Cardinality(DOMAIN reminders.byId) < MaxRows
    /\ LET current_time == http.now + 1
           reminder_id == FreshId(reminders)
           data == reminder_data(reminder, NoId, current_time)
       IN /\ reminders' = Insert(reminders, reminder_id, data)
          /\ http' = [pc |-> "idle", now |-> current_time,
                      last |-> IF Validates(data)
                               THEN Exchange("POST", reminder_id, reminder, 201,
                                             ReminderResponse(reminder_id, data))
                               ELSE Exchange("POST", reminder_id, reminder, 500, NoBody)]
    /\ UNCHANGED <<clients, recurrence_patterns, sync, conc, gen>>

\* POST /api/reminders with recurrence_pattern, up to the call of
\* generate_recurrence_instances(reminder_data, pattern_dict, horizon_days=90).
PostRecurring(reminder) ==
    /\ http.pc = "idle"
    /\ http.now < MaxClock
    /\ Cardinality(DOMAIN reminders.byId) + RecurringCount <= MaxRows
    /\ PatternIds \ DOMAIN recurrence_patterns.byId /= {}
    /\ LET pattern_id == FreshPatternId(recurrence_patterns)
           pattern == reminder.recurrence_pattern
       IN /\ recurrence_patterns' =
                create_recurrence_pattern(recurrence_patterns, pattern_id, pattern)
          /\ gen' = StartGen(pattern.frequency, pattern.interval, pattern.end_count,
                             pattern.end_date, pattern.days_of_week,
                             pattern.day_of_month, reminder.due_date, pattern_id,
                             DefaultHorizon)
          /\ http' = [pc |-> "generating", now |-> http.now + 1,
                      last |-> Exchange("POST", FreshId(reminders), reminder, 0, NoBody)]
    /\ UNCHANGED <<clients, reminders, sync, conc>>

\* The rows that the generator committed, under fresh ids.
InstanceRows(db, base, committed) ==
    [db EXCEPT !.byId =
        [k \in DOMAIN db.byId \cup {FreshId(db) + i - 1 : i \in DOMAIN committed} |->
            IF k \in DOMAIN db.byId
            THEN db.byId[k]
            ELSE [base EXCEPT !.due_date = committed[k - FreshId(db) + 1].due_date,
                              !.recurrence_id =
                                  committed[k - FreshId(db) + 1].recurrence_id]]]

\* The rest of the handler once the generator has returned or raised:
\* "first_instance = db.get_reminder(generated_ids[0])" names a function that
\* the database module does not define (AttributeError, answered 500); with
\* no instance generated the single reminder is created.
PostRecurringDone ==
    /\ http.pc = "generating"
    /\ gen.pc \in {"done", "raised"}
    /\ LET reminder == http.last.request
           pattern_id == recurrence_patterns.last.pattern_id
           data == reminder_data(reminder, pattern_id, http.now)
       IN IF gen.pc = "raised"
          THEN /\ UNCHANGED reminders
               /\ http' = [http EXCEPT !.pc = "idle", !.last.status = 500]
          ELSE IF gen.committed /= <<>>
          THEN /\ reminders' = InstanceRows(reminders, data, gen.committed)
               /\ http' = [http EXCEPT !.pc = "idle", !.last.status = 500]
          ELSE /\ reminders' = Insert(reminders, http.last.id, data)
               /\ http' = [http EXCEPT
                             !.pc = "idle", !.last.status = 201,
                             !.last.body = ReminderResponse(http.last.id, data)]
    /\ gen' = IdleGen
    /\ UNCHANGED <<clients, recurrence_patterns, sync, conc>>

\* GET /api/reminders/{reminder_id}
GetReminder(reminder_id) ==
    /\ http.pc = "idle"
    /\ http' = [http EXCEPT !.last =
                  IF ~Exists(reminders, reminder_id)
                  THEN Exchange("GET", reminder_id, NoCall, 404, NoBody)
                  ELSE IF ~Validates(reminders.byId[reminder_id])
                  THEN Exchange("GET", reminder_id, NoCall, 500, NoBody)
                  ELSE Exchange("GET", reminder_id, NoCall, 200,
                                ReminderResponse(reminder_id,
                                                 reminders.byId[reminder_id]))]
    /\ UNCHANGED <<clients, reminders, recurrence_patterns, sync, conc, gen>>

\* ReminderUpdate bodies, as model_dump(exclude_unset=True) returns them.
ReminderUpdates ==
    {[status |-> st] : st \in Statuses}
    \cup {[text |-> "u"], [completed_at |-> 1], [time_required |-> "true"], <<>>}

\* The update dictionary that PATCH builds from the body.
PatchData(update, current_time) ==
    LET stamped == Put(update, "updated_at", current_time)
        completed ==
            IF /\ Has(stamped, "status") /\ stamped.status = "completed"
               /\ ~(Has(stamped, "completed_at") /\ StrTruthy(stamped.completed_at))
            THEN Put(stamped, "completed_at", current_time)
            ELSE stamped
    IN IF Has(completed, "time_required")
       THEN Put(completed, "time_required", StoredBool(completed.time_required))
       ELSE completed

\* PATCH /api/reminders/{reminder_id}
PatchReminder(reminder_id, update) ==
    /\ http.pc = "idle"
    /\ http.now < MaxClock
    /\ IF ~Exists(reminders, reminder_id)
       THEN /\ UNCHANGED reminders
            /\ http' = [http EXCEPT !.last =
                          Exchange("PATCH", reminder_id, update, 404, NoBody)]
       ELSE LET current_time == http.now + 1
                db == UpdateSet(reminders, reminder_id, PatchData(update, current_time))
            IN /\ reminders' = db
               /\ http' = [pc |-> "idle", now |-> current_time,
                           last |-> IF Validates(db.byId[reminder_id])
                                    THEN Exchange("PATCH", reminder_id, update, 200,
                                                  ReminderResponse(reminder_id,
                                                                   db.byId[reminder_id]))
                                    ELSE Exchange("PATCH", reminder_id, update, 500,
                                                  NoBody)]
    /\ UNCHANGED <<clients, recurrence_patterns, sync, conc, gen>>

\* The payloads of the update changes a client syncs.
SyncPayloads ==
    {[text |-> "u"], [status |-> "completed"], [completed_at |-> 1],
     [text |-> "u", updated_at |-> 1]}

\* POST /api/sync with one update change of a stored reminder: the conflict
\* check, update_reminder with the payload, update_synced_at, and the delta
\* for last_sync, whose rows are stamped by batch_update_synced_at.
SyncUpdate(reminder_id, data, updated_at, last_sync) ==
    /\ http.pc = "idle"
    /\ http.now < MaxClock
    /\ Exists(reminders, reminder_id)
    /\ LET current_time == http.now + 1
           change == SyncChange(reminder_id, "update", data, updated_at)
           existing == get_reminder_by_id(reminders, reminder_id)
           applied == IF Applies(existing, change)
                      THEN update_synced_at(UpdateSet(reminders, reminder_id, data),
                                            reminder_id, current_time)
                      ELSE reminders
           delivered == Delivered(get_changes_since(applied, last_sync), <<change>>)
       IN /\ reminders' = batch_update_synced_at(applied, {r.id : r \in delivered},
                                                 current_time)
          /\ http' = [pc |-> "idle", now |-> current_time,
                      last |-> Exchange("SYNC", reminder_id, change, 200,
                                        [conflicts |-> Conflicts(existing, change),
                                         server_changes |-> delivered])]
    /\ UNCHANGED <<clients, recurrence_patterns, sync, conc, gen>>

\* PATCH with recurrence_id links a reminder to a pattern; the store call
\* delete_recurrence_pattern(pattern_id) unlinks and deletes.
UnlinkPattern(pattern_id) ==
    /\ http.pc = "idle"
    /\ http.now < MaxClock
    /\ pattern_id \in DOMAIN recurrence_patterns.byId
    /\ LET r == delete_recurrence_pattern(reminders, recurrence_patterns, pattern_id)
       IN /\ reminders' = r.reminders
          /\ recurrence_patterns' = r.patterns
    /\ http' = [pc |-> "idle", now |-> http.now + 1,
                last |-> Exchange("UNLINK", 0, NoCall, 0, NoBody)]
    /\ UNCHANGED <<clients, sync, conc, gen>>

NextApi ==
    \/ \E reminder \in PlainCreates : PostReminder(reminder)
    \/ \E reminder \in RecurringCreates : PostRecurring(reminder)
    \/ (http.pc = "generating" /\ NextGen)
    \/ PostRecurringDone
    \/ \E id \in 1..MaxRows : GetReminder(id)
    \/ \E id \in 1..MaxRows, update \in ReminderUpdates : PatchReminder(id, update)
    \/ \E id \in 1..MaxRows, data \in SyncPayloads, t \in {1, MaxClock},
          ls \in {None, 1} : SyncUpdate(id, data, t, ls)
    \/ \E p \in PatternIds : UnlinkPattern(p)

SpecApi == InitApi /\ [][NextApi]_vars

\* ------------------------------------------ sync_reminders, whole requests
MaxBatch == 3

Clients == {"A", "B"}

\* The latest timestamp a client puts in a change: later than any the
\* server's clock reaches.
LatestClientTime == MaxClock + 1

\* The columns of a row that a reminder's version consists of.
Content(row) == [text |-> row.text, created_at |-> row.created_at, updated_at |-> row.updated_at]

Contents(db) == [k \in DOMAIN db.byId |-> Content(db.byId[k])]

\* One iteration of "for change in sync_request.changes": the table after it,
\* what apply_sync_change returned, and the conflict entries appended.
ApplyChange(db, change, current_time) ==
    LET existing == get_reminder_by_id(db, change.id)
        result == IF Applies(existing, change)
                  THEN apply_sync_change(db, change.id, change.action, change.data)
                  ELSE Result(db, "skipped", FALSE)
    IN [db |-> StampApplied(result, change, current_time), ret |-> result.ret,
        conflicts |-> Conflicts(existing, change)]

\* A mutation of the loop: every change is applied to the table as the
\* request found it, and the last one's result is kept.
RECURSIVE ApplyChanges_stale(_, _, _)
ApplyChanges_stale(db, changes, current_time) ==
    IF changes = <<>>
    THEN [db |-> db, applied_count |-> 0, conflicts |-> <<>>, applied |-> {}]
    ELSE LET first == ApplyChange(db, Head(changes), current_time)
             rest == ApplyChanges_stale(db, Tail(changes), current_time)
         IN [db |-> IF Tail(changes) = <<>> THEN first.db ELSE rest.db,
             applied_count |-> rest.applied_count + (IF first.ret = "true" THEN 1 ELSE 0),
             conflicts |-> first.conflicts \o rest.conflicts,
             applied |-> rest.applied \cup (IF first.ret = "true"
                                             THEN {Head(changes).id} ELSE {})]

\* Step 1 of sync_reminders: the loop over the batch, in list order.
RECURSIVE ApplyChanges(_, _, _)
ApplyChanges(db, changes, current_time) ==
    IF changes = <<>>
    THEN [db |-> db, applied_count |-> 0, conflicts |-> <<>>, applied |-> {}]
    ELSE LET first == ApplyChange(db, Head(changes), current_time)
             rest == ApplyChanges(first.db, Tail(changes), current_time)
         IN [db |-> rest.db,
             applied_count |-> rest.applied_count + (IF first.ret = "true" THEN 1 ELSE 0),
             conflicts |-> first.conflicts \o rest.conflicts,
             applied |-> rest.applied \cup (IF first.ret = "true"
                                             THEN {Head(changes).id} ELSE {})]

\* A client that has not synced yet: last_sync is null and it holds no record.
NewClient ==
    [last_sync |-> None, request |-> <<>>, status |-> 0, server_changes |-> {},
     conflicts |-> <<>>, applied_count |-> 0, known |-> <<>>, seen |-> <<>>]

\* The versions a client holds after a response: those it held, those of its
\* changes the server applied, and those the server delivered.
Known(known, db, applied, delivered) ==
    LET got == {r.id : r \in delivered} \cup (applied \cap DOMAIN db.byId)
        kept == DOMAIN known \ (applied \ DOMAIN db.byId)
    IN [k \in kept \cup got |-> IF k \in got THEN Content(db.byId[k]) ELSE known[k]]

\* The changes a client may submit for one id with timestamps up to latest: a
\* create of a complete record, a create whose payload carries a later
\* updated_at than the change, updates with and without updated_at in the
\* payload, a delete.
ClientChanges(i, latest) ==
    {SyncChange(i, "create", Data(i, "c", t, t), t) : t \in 1..latest}
    \cup {SyncChange(i, "create", Data(i, "c", 1, latest), 1)}
    \cup {SyncChange(i, "update", Data(NoId, "u", None, None), t) : t \in 1..latest}
    \cup {SyncChange(i, "update", Data(NoId, "v", None, t), t) : t \in 1..latest}
    \cup {SyncChange(i, "delete", NoData, 1)}

\* POST /api/sync by client c, with the last_sync its previous response
\* returned: steps 1 to 4 of the handler.  The client keeps the response;
\* seen is the table as the response left it.
ClientSync(c, changes) ==
    /\ http.now < MaxClock
    /\ LET current_time == http.now + 1
           loop == ApplyChanges(reminders, changes, current_time)
           server_reminders == get_changes_since(loop.db, clients[c].last_sync)
           delivered == Delivered(server_reminders, changes)
           stamped == batch_update_synced_at(loop.db, {r.id : r \in delivered},
                                             current_time)
       IN /\ http' = [http EXCEPT !.now = current_time]
          /\ IF \E r \in delivered : r.id = NoId
             THEN /\ reminders' = loop.db
                  /\ clients' = [clients EXCEPT ![c].request = changes,
                                                ![c].status = 500]
             ELSE /\ reminders' = stamped
                  /\ clients' = [clients EXCEPT ![c] =
                        [last_sync |-> current_time, request |-> changes,
                         status |-> 200,
                         server_changes |->
                             {SyncChange(r.id, "update", r.row, r.row.updated_at) :
                                r \in delivered},
                         conflicts |-> loop.conflicts,
                         applied_count |-> loop.applied_count,
                         known |-> Known(clients[c].known, stamped, loop.applied,
                                         delivered),
                         seen |-> Contents(stamped)]]
    /\ UNCHANGED <<recurrence_patterns, sync, conc, gen>>

NoTable == [byId |-> <<>>, nullId |-> <<>>]

\* Two clients of an empty server, each syncing at most one change at a time.
InitClients ==
    /\ http = IdleHttp
    /\ clients = [c \in Clients |-> NewClient]
    /\ recurrence_patterns = NoPatterns
    /\ reminders = NoTable
    /\ sync = IdleSync
    /\ conc = IdleConc
    /\ gen = IdleGen

SmallBatches == {<<>>} \cup {<<change>> : change \in UNION {ClientChanges(i, LatestClientTime) : i \in Ids}}

NextClients == \E c \in Clients, changes \in SmallBatches : ClientSync(c, changes)

SpecClients == InitClients /\ [][NextClients]_vars

\* One client, one request with a batch of up to MaxBatch changes of one id.
RECURSIVE Batches(_)
Batches(n) ==
    IF n = 0 THEN {<<>>}
    ELSE Batches(n - 1)
         \cup {Append(b, change) : b \in {x \in Batches(n - 1) : Len(x) = n - 1},
                                   change \in ClientChanges("r1", MaxTime + 1)}

InitBatch ==
    /\ http = IdleHttp
    /\ clients = [c \in {"A"} |-> NewClient]
    /\ recurrence_patterns = NoPatterns
    /\ reminders \in Tables
    /\ sync = IdleSync
    /\ conc = IdleConc
    /\ gen = IdleGen

NextBatch == http.now = 0 /\ \E changes \in Batches(MaxBatch) : ClientSync("A", changes)

SpecBatch == InitBatch /\ [][NextBatch]_vars

\* ------------------------------------------------------------ properties
\* A step of the serial specification that processed one change.
Processed == sync.pc = "loop" /\ Len(sync'.changes) = Len(sync.changes) + 1

LastChange(s) == s.changes[Len(s.changes)]

ServerTs(change) == reminders.byId[change.id].updated_at

\* C1 as stated: an update of a stored record whose updated_at is strictly
\* greater than change.updated_at leaves the table unchanged, is not counted,
\* and appends exactly one server_wins conflict entry.
C1_ServerWinsAnyTimestamp ==
    [][Processed =>
        LET c == LastChange(sync') IN
        (c.action = "update" /\ Exists(reminders, c.id) /\ ServerTs(c) > c.updated_at)
        => /\ reminders' = reminders
           /\ sync'.applied_count = sync.applied_count
           /\ sync'.conflicts =
                Append(sync.conflicts,
                       ConflictInfo(c.id, c.updated_at, ServerTs(c), "server_wins"))]_vars

\* C1 amended: the same, for a change whose updated_at is a non-empty string.
C1_ServerWins ==
    [][Processed =>
        LET c == LastChange(sync') IN
        (c.action = "update" /\ Exists(reminders, c.id) /\ StrTruthy(c.updated_at)
         /\ ServerTs(c) > c.updated_at)
        => /\ reminders' = reminders
           /\ sync'.applied_count = sync.applied_count
           /\ sync'.conflicts =
                Append(sync.conflicts,
                       ConflictInfo(c.id, c.updated_at, ServerTs(c), "server_wins"))]_vars

\* A request that rejected an update as server_wins.
C1_Witness ==
    /\ sync.pc = "loop"
    /\ Len(sync.conflicts) > 0
    /\ sync.conflicts[Len(sync.conflicts)].resolution = "server_wins"
    /\ LastChange(sync).action = "update"
    /\ LastChange(sync).data.text = "c"
    /\ Exists(reminders, LastChange(sync).id)
    /\ reminders.byId[LastChange(sync).id].text = "s"

\* The fields of a payload are the fields of the row.
Written(data, row) ==
    /\ data.text /= NoText => row.text = data.text
    /\ data.created_at /= None => row.created_at = data.created_at
    /\ data.updated_at /= None => row.updated_at = data.updated_at

ClientWinsEffect(c) ==
    LET newId == IF c.data.id = NoId THEN c.id ELSE c.data.id IN
    /\ Exists(reminders', newId)
    /\ Written(c.data, reminders'.byId[newId])
    /\ sync'.applied_count = sync.applied_count + 1
    /\ sync'.conflicts =
         Append(sync.conflicts,
                ConflictInfo(c.id, c.updated_at, ServerTs(c), "client_wins"))

Positions(P(_)) == {i \in DOMAIN sync.log : P(sync.log[i])}

EntryWrote(e) == e.wrote

EntryFailed(e) == e.ret \in {"raise", "false"}

\* C5: when the batch is done, applied_count is the number of changes that
\* wrote to the table, and no change that was skipped, rejected as
\* server_wins or aborted by an exception wrote anything.
C5_AppliedCountIsWrites ==
    sync.pc = "done" =>
        /\ sync.applied_count = Cardinality(Positions(EntryWrote))
        /\ \A i \in DOMAIN sync.log :
             sync.log[i].ret \in {"raise", "false", "skipped"} => ~sync.log[i].wrote

\* C6: when a batch with a malformed or raising change is done, the sync
\* responded successfully and every change the store could apply was applied.
C6_BatchNeverAborts ==
    (sync.pc = "done" /\ Positions(EntryFailed) /= {}) =>
        /\ sync.status = 200
        /\ Len(sync.changes) = Len(sync.log)
        /\ \A i \in DOMAIN sync.log : sync.log[i].valid => sync.log[i].ret = "true"

\* The reminders a client at last_sync has not seen.
Unseen(last_sync) ==
    {k \in DOMAIN reminders.byId :
        ~StrTruthy(last_sync) \/ reminders.byId[k].updated_at > last_sync}

\* C7: the server_changes of a sync response are the stored reminders with
\* updated_at > last_sync (all of them when last_sync is absent) whose id is
\* not in the batch, each with the stored row as its data.
C7_ServerChangesAreUnseenMinusBatch ==
    (sync.pc = "done" /\ sync.status = 200) =>
        /\ {c.id : c \in sync.server_changes} = Unseen(sync.last_sync) \ BatchIds(sync.changes)
        /\ \A c \in sync.server_changes :
             /\ c.action = "update"
             /\ c.updated_at = reminders.byId[c.id].updated_at
             /\ c.data.text = reminders.byId[c.id].text
             /\ c.data.updated_at = reminders.byId[c.id].updated_at
        /\ \A c, d \in sync.server_changes : c.id = d.id => c = d

\* A response that delivers one record and holds back a record the client has
\* just pushed, which last_sync alone would have selected.
C7_Witness ==
    /\ sync.pc = "done" /\ sync.status = 200
    /\ sync.server_changes /= {}
    /\ StrTruthy(sync.last_sync)
    /\ Unseen(sync.last_sync) \cap BatchIds(sync.changes) /= {}

\* C8: an update of an id that has no record creates the record with the
\* payload, is counted, and records no conflict.
C8_UpdateOfMissingIdCreates ==
    [][Processed =>
        LET c == LastChange(sync') IN
        (c.action = "update" /\ DictTruthy(c.data) /\ c.data.id \in {NoId, c.id}
         /\ ~Exists(reminders, c.id))
        => /\ Exists(reminders', c.id)
           /\ Written(c.data, reminders'.byId[c.id])
           /\ sync'.applied_count = sync.applied_count + 1
           /\ sync'.conflicts = sync.conflicts]_vars

\* Both requests have been answered.
BothDone == \A p \in Procs : conc[p].pc = "done"

\* C3: after two update changes of r1 with different change.updated_at were
\* served in two requests, one after the other, r1 holds the payload of the
\* change with the later change.updated_at.
C3_LastWriteWins ==
    BothDone =>
        \A p \in Procs :
            conc[p].change.updated_at > conc[Other(p)].change.updated_at
            => reminders.byId["r1"].text = ClientText(p)

\* C4: when two requests updating r1 run concurrently, the older change never
\* overwrites the newer one: once both are answered, a newer change that was
\* applied is what r1 holds.
C4_NoLostUpdate ==
    BothDone =>
        \A p \in Procs :
            (/\ conc[p].change.updated_at > conc[Other(p)].change.updated_at
             /\ conc[p].ret = "true")
            => reminders.byId["r1"].text = ClientText(p)

C10_NoInstanceAfterEnd ==
    gen.pc /= "idle" =>
        \A i \in DOMAIN gen.inserted \cup DOMAIN gen.committed :
            LET due == IF i \in DOMAIN gen.inserted THEN gen.inserted[i].due_date
                       ELSE gen.committed[i].due_date
            IN /\ Ord(due) <= Ord(Today) + gen.horizon_days
               /\ gen.pattern_end /= NoDate => Ord(due) <= Ord(gen.pattern_end)

\* A call that returned an instance due on pattern.end_date, before the
\* horizon, and would have gone on.
C10_Witness ==
    /\ gen.pc = "done"
    /\ gen.pattern_end /= NoDate
    /\ Ord(gen.pattern_end) < Ord(Today) + gen.horizon_days
    /\ gen.end_count = None
    /\ Len(gen.committed) > 1
    /\ gen.committed[Len(gen.committed)].due_date = gen.pattern_end

\* The least number of a non-empty set.
MinOf(S) == CHOOSE x \in S : \A y \in S : x <= y

\* How many of the dates start, start + k, start + 2k, ... are on or before end.
WalkCount(start, end, k) ==
    IF Ord(start) > Ord(end) THEN 0 ELSE ((Ord(end) - Ord(start)) \div k) + 1

\* The bounds that end_count and pattern.end_date put on a daily walk.
TighterBounds(g) ==
    (IF IntTruthy(g.end_count) THEN {g.end_count} ELSE {})
    \cup (IF g.pattern_end /= NoDate
          THEN {WalkCount(g.start_date, g.pattern_end, g.interval)}
          ELSE {})

DailyDone == gen.pc = "done" /\ gen.frequency = "daily"

\* C11 as stated: a daily call returns floor(h/k) + 1 instances, or the
\* tighter bound of end_count / end_date when one applies.
C11_DailyCountFromToday ==
    DailyDone =>
        Len(gen.committed)
          = MinOf({(gen.horizon_days \div gen.interval) + 1} \cup TighterBounds(gen))

\* C11 amended: a daily call returns as many instances as there are dates
\* start, start + k, ... on or before today + h (none when start is later
\* than that), or the tighter bound of end_count / end_date when one applies.
C11_DailyCountFromStart ==
    DailyDone =>
        Len(gen.committed)
          = MinOf({WalkCount(gen.start_date, AddDays(Today, gen.horizon_days),
                             gen.interval)} \cup TighterBounds(gen))

\* A daily call whose walk started before today and ran to the horizon, so
\* that it returned more than floor(h/k) + 1 instances.
C11_Witness ==
    /\ DailyDone
    /\ Ord(gen.start_date) < Ord(Today)
    /\ TighterBounds(gen) = {}
    /\ gen.interval > 1
    /\ Len(gen.committed) > (gen.horizon_days \div gen.interval) + 1

\* C12: the due dates of a daily pattern are start, start + k, start + 2k,
\* ... in generation order, so that consecutive instances are k days apart.
C12_DailyDatesAreMultiples ==
    gen.frequency = "daily" =>
        /\ \A i \in DOMAIN gen.inserted :
              gen.inserted[i].due_date
                = AddDays(gen.start_date, (i - 1) * gen.interval)
        /\ \A i \in DOMAIN gen.committed :
              gen.committed[i].due_date
                = AddDays(gen.start_date, (i - 1) * gen.interval)

\* A daily call with interval 2 and end_count 3 that returned three
\* instances, two days apart.
C12_Witness ==
    /\ DailyDone
    /\ gen.interval = 2
    /\ gen.end_count = 3
    /\ Len(gen.committed) = 3
    /\ Ord(gen.committed[3].due_date) = Ord(gen.committed[2].due_date) + 2

\* The anchor day of a monthly pattern: pattern.day_of_month when set, else
\* the day of the original start date.
AnchorDay(g) ==
    IF IntTruthy(g.day_of_month) THEN g.day_of_month ELSE g.start_date.day

\* Day d of a month, or the last day of the month when it has fewer days.
Clamped(y, m, d) == Date(y, m, IF d > DaysInMonth(y, m) THEN DaysInMonth(y, m) ELSE d)

\* C13: every instance of a monthly pattern is on the anchor day of its
\* month, or on the last day of the month when the month is shorter.
C13_MonthlyOnAnchorDay ==
    gen.frequency = "monthly" =>
        \A i \in DOMAIN gen.inserted :
            LET due == gen.inserted[i].due_date
            IN due = Clamped(due.year, due.month, AnchorDay(gen))

\* The instances of the returned list that are due in month m of year y.
InMonth(g, y, m) ==
    {i \in DOMAIN g.committed :
        g.committed[i].due_date.year = y /\ g.committed[i].due_date.month = m}

\* C14: a monthly pattern with day_of_month d and interval 1 gives every
\* calendar month whose (clamped) day d is between the start date and the
\* end date exactly one instance, on that day.
C14_NoMonthSkipped ==
    (/\ gen.pc = "done"
     /\ gen.frequency = "monthly"
     /\ IntTruthy(gen.day_of_month)
     /\ gen.interval = 1
     /\ ~IntTruthy(gen.end_count)) =>
        \A m \in 1..12 :
            LET target == Clamped(Today.year, m, gen.day_of_month)
            IN (Ord(gen.start_date) <= Ord(target) /\ Ord(target) <= Ord(gen.end_date)) =>
                  /\ Cardinality(InMonth(gen, Today.year, m)) = 1
                  /\ \A i \in InMonth(gen, Today.year, m) :
                        gen.committed[i].due_date = target

\* The index of the week of a date, counted in whole weeks from the start date.
WeekIndex(g, date) == (Ord(date) - Ord(g.start_date)) \div 7

\* C15: with interval N > 1 every instance of a weekly pattern is in a week
\* whose index from the start date is a multiple of N.
C15_WeeklySkipsWeeks ==
    (gen.frequency = "weekly" /\ gen.interval > 1) =>
        \A i \in DOMAIN gen.inserted :
            WeekIndex(gen, gen.inserted[i].due_date) % gen.interval = 0

\* C16: a yearly pattern goes on from every inserted instance to the same
\* month and day interval years later, Feb 29 being clamped to Feb 28 when
\* that year is not a leap year, and the call never ends in an error.
C16_YearlyClampsFeb29 ==
    [][(gen.frequency = "yearly" /\ gen.pc = "loop" /\ gen'.pc /= "done") =>
          /\ gen'.pc = "loop"
          /\ gen'.current_date = Clamped(gen.current_date.year + gen.interval,
                                         gen.current_date.month,
                                         gen.current_date.day)]_vars

\* C17: every iteration of the generation loop moves the candidate date
\* strictly forward, for every frequency and every interval.
C17_EveryIterationAdvances ==
    [][(gen.pc = "loop" /\ gen'.pc = "loop") =>
          Ord(gen'.current_date) > Ord(gen.current_date)]_vars

\* C18: a call whose pattern has an unknown frequency is rejected before the
\* loop: it inserts nothing and does not return normally.
C18_UnknownFrequencyRejected ==
    gen.frequency \notin Frequencies =>
        /\ gen.inserted = <<>>
        /\ gen.committed = <<>>
        /\ gen.pc /= "done"

\* C19: every instance that a call inserts has the id of the expanded pattern
\* as its recurrence_id, and the pattern row stays as it was stored.
C19_InstancesLinkedToPattern ==
    gen.pc /= "idle" =>
        /\ \A i \in DOMAIN gen.inserted :
              gen.inserted[i].recurrence_id = gen.pattern_id
        /\ \A i \in DOMAIN gen.committed :
              gen.committed[i].recurrence_id = gen.pattern_id
        /\ recurrence_patterns
              = StoredPattern(gen.pattern_id,
                              PatternRow(gen.frequency, gen.interval, gen.days_of_week,
                                         gen.day_of_month, gen.pattern_end,
                                         gen.end_count))

\* C20: delete_recurrence_pattern(p) removes pattern p and no other pattern,
\* sets recurrence_id to NULL on every reminder that referenced p, deletes no
\* reminder, and leaves every other reminder and every other field as it was.
C20_DeleteUnlinksOnly ==
    [][\A p \in PatternIds :
          DeletePattern(p) =>
             /\ p \notin DOMAIN recurrence_patterns'.byId
             /\ \A q \in DOMAIN recurrence_patterns.byId \ {p} :
                   /\ q \in DOMAIN recurrence_patterns'.byId
                   /\ recurrence_patterns'.byId[q] = recurrence_patterns.byId[q]
             /\ DOMAIN reminders'.byId = DOMAIN reminders.byId
             /\ reminders'.nullId = reminders.nullId
             /\ \A i \in DOMAIN reminders.byId :
                   IF reminders.byId[i].recurrence_id = p
                   THEN reminders'.byId[i]
                          = [reminders.byId[i] EXCEPT !.recurrence_id = NoId]
                   ELSE reminders'.byId[i] = reminders.byId[i]]_vars

\* A stored pattern was deleted, the reminder that referenced it is unlinked
\* and the other reminder is still linked to the other pattern.
C20_Witness ==
    /\ recurrence_patterns.last.op = "delete_recurrence_pattern"
    /\ recurrence_patterns.last.ret
    /\ \E i, j \in DOMAIN reminders.byId :
          /\ i \in recurrence_patterns.last.unlinked
          /\ reminders.byId[i].recurrence_id = NoId
          /\ j \notin recurrence_patterns.last.unlinked
          /\ reminders.byId[j].recurrence_id \in DOMAIN recurrence_patterns.byId

\* The reminders stored before and after a step.
Kept == DOMAIN reminders.byId \cap DOMAIN reminders'.byId

\* A step changed a field of reminder id other than the two timestamps that
\* record changes and syncs.
Mutated(id) ==
    \E f \in DOMAIN reminders.byId[id] \ {"updated_at", "synced_at"} :
        reminders'.byId[id][f] /= reminders.byId[id][f]

\* C21: an operation that changes a stored field of a reminder sets that
\* reminder's updated_at to the time of the operation.
C21_MutationRefreshesUpdatedAt ==
    [][\A id \in Kept :
          Mutated(id) => reminders'.byId[id].updated_at = http'.now]_vars

\* completed_at of reminder id is non-null after the step and was null, or
\* the reminder did not exist, before.
CompletedAtSet(id) ==
    /\ reminders'.byId[id].completed_at /= None
    /\ id \in DOMAIN reminders.byId => reminders.byId[id].completed_at = None

\* C22: after create, PATCH and sync operations every reminder whose status
\* is completed has a completed_at, and completed_at is set only by a step
\* that leaves the status completed.
C22_CompletedAtIffCompleted ==
    [][\A id \in DOMAIN reminders'.byId :
          /\ reminders'.byId[id].status = "completed" =>
                reminders'.byId[id].completed_at /= None
          /\ CompletedAtSet(id) => reminders'.byId[id].status = "completed"]_vars

\* C23: a create request without a pattern is answered 201, and a GET of the
\* returned id right after it returns every submitted field as submitted.
C23_CreateThenGetRoundTrip ==
    [][/\ (http'.last.op = "POST" /\ http'.pc = "idle" /\ http.pc = "idle") =>
             http'.last.status = 201
       /\ (/\ http.last.op = "POST" /\ http.last.status = 201
           /\ http'.last.op = "GET" /\ http'.last.id = http.last.id) =>
             /\ http'.last.status = 200
             /\ \A f \in Submitted : http'.last.body[f] = http.last.request[f]]_vars

\* C24: a create request with a recurrence_pattern whose instances the
\* generator has produced is answered 201, the pattern is stored, the
\* instances are stored, and the body is the first generated instance.
C24_RecurringCreateSucceeds ==
    [][(http.pc = "generating" /\ http'.pc = "idle" /\ gen.pc = "done") =>
          /\ http'.last.status = 201
          /\ recurrence_patterns.last.pattern_id \in DOMAIN recurrence_patterns'.byId
          /\ gen.committed /= <<>> =>
                /\ Cardinality(DOMAIN reminders'.byId)
                     = Cardinality(DOMAIN reminders.byId) + Len(gen.committed)
                /\ http'.last.body.due_date = gen.committed[1].due_date]_vars

\* The step is a sync request of client c.
Synced(c) == http'.now /= http.now /\ clients'[c] /= clients[c]

\* The timestamps of a change in the order they appear in it.
Stamps(change) == IF change.data.updated_at = None THEN <<change.updated_at>> ELSE <<change.updated_at, change.data.updated_at>>

NonDecreasing(s) == \A i \in 1..(Len(s) - 1) : s[i] <= s[i + 1]

\* A batch [create X, update X, update X] of a record the server does not
\* hold, whose timestamps never decrease along the batch.
CreateUpdateUpdate(db, b) ==
    /\ Len(b) = 3
    /\ b[1].action = "create" /\ b[1].data.id = b[1].id /\ ~Exists(db, b[1].id)
    /\ \A k \in {2, 3} : b[k].action = "update" /\ b[k].id = b[1].id /\ DictTruthy(b[k].data)
    /\ NonDecreasing(Stamps(b[1]) \o Stamps(b[2]) \o Stamps(b[3]))

\* C25: the changes of a batch are processed in submitted order, each against
\* the table the previous ones left: a batch [create X, update X, update X]
\* with non-decreasing timestamps leaves X with the values of the last update
\* and is answered with applied_count = 3.
C25_BatchInOrder ==
    [][\A c \in DOMAIN clients :
         (Synced(c) /\ CreateUpdateUpdate(reminders, clients'[c].request))
         => LET b == clients'[c].request IN
            /\ Exists(reminders', b[1].id)
            /\ Written(b[3].data, reminders'.byId[b[1].id])
            /\ clients'[c].applied_count = 3]_vars

\* A request [create r1, update to "u", update to "v"] was served: r1 holds "v".
C25_Witness ==
    /\ "A" \in DOMAIN clients
    /\ Len(clients["A"].request) = 3
    /\ clients["A"].request[1].action = "create"
    /\ clients["A"].request[2].data.text = "u"
    /\ clients["A"].request[3].data.text = "v"
    /\ clients["A"].request[3].updated_at = clients["A"].request[1].updated_at
    /\ clients["A"].applied_count = 3
    /\ Exists(reminders, "r1") /\ reminders.byId["r1"].text = "v"

\* The ids of the records a response delivered.
DeliveredIds(server_changes) == {change.id : change \in server_changes}

\* C26: a client that syncs an empty batch with the last_sync its previous
\* sync returned, while no reminder was created, updated or deleted since,
\* gets empty server_changes, whatever updated_at the stored reminders carry.
C26_ResyncDeliversNothing ==
    [][\A c \in DOMAIN clients :
         (/\ Synced(c)
          /\ clients[c].status = 200
          /\ clients'[c].request = <<>>
          /\ Contents(reminders) = clients[c].seen)
         => clients'[c].server_changes = {}]_vars

\* The previous response of c rejected its update of id as server_wins.
Rejected(c, id) ==
    \E i \in DOMAIN clients[c].conflicts :
        /\ clients[c].conflicts[i].id = id
        /\ clients[c].conflicts[i].resolution = "server_wins"

\* The client does not hold the version of id that the server stores.
Missing(c, id) ==
    /\ Exists(reminders, id)
    /\ id \in DOMAIN clients[c].known => clients[c].known[id] /= Content(reminders.byId[id])

\* C27: a client whose update was rejected as server_wins receives the server
\* version in server_changes of that response or of its next sync, provided
\* the record did not change in between.
C27_ServerVersionReachesLoser ==
    [][\A c \in DOMAIN clients : \A id \in Ids :
         (/\ Synced(c)
          /\ clients[c].status = 200
          /\ Rejected(c, id)
          /\ id \notin DeliveredIds(clients[c].server_changes)
          /\ Missing(c, id)
          /\ id \in DOMAIN clients[c].seen
          /\ clients[c].seen[id] = Content(reminders.byId[id])
          /\ id \notin BatchIds(clients'[c].request))
         => id \in DeliveredIds(clients'[c].server_changes)]_vars

\* C28: a version that another client's sync wrote is in server_changes of
\* the next sync of every client that does not hold it, whatever updated_at
\* the writer supplied.
C28_AppliedChangeReachesOthers ==
    [][\A c \in DOMAIN clients : \A id \in Ids :
         (/\ Synced(c)
          /\ Missing(c, id)
          /\ id \notin BatchIds(clients'[c].request))
         => id \in DeliveredIds(clients'[c].server_changes)]_vars

\* The ids of a sequence of inserted rows.
RowIds(rows) == [i \in DOMAIN rows |-> rows[i].id]

Distinct(s) == \A i, j \in DOMAIN s : i /= j => s[i] /= s[j]

\* C29: generate_recurrence_instances is all-or-nothing: while it runs and
\* when it raises, none of the rows it inserted is persisted; when it returns,
\* the persisted rows are exactly those of the returned ids, the ids are
\* pairwise distinct, and in every step the rows stored before stay as they were.
C29_AllOrNothing ==
    [][/\ reminders' = reminders
       /\ gen'.pc \in {"loop", "raised"} => gen'.committed = <<>>
       /\ gen'.pc = "raised" => gen'.inserted = <<>>
       /\ gen'.pc = "done" => /\ gen'.committed = gen.inserted
                              /\ RowIds(gen'.committed) = gen'.generated_ids
                              /\ Distinct(gen'.generated_ids)]_vars

\* A call that raised after it had inserted an instance, none persisted.
C29_Witness ==
    /\ gen.pc = "raised"
    /\ gen.instance_count >= 1
    /\ gen.generated_ids = <<>>
    /\ gen.committed = <<>>

\* The gaps in days between consecutive generated instances.
Gaps(rows) == {Ord(rows[i + 1].due_date) - Ord(rows[i].due_date) : i \in 1..(Len(rows) - 1)}

\* C30: a weekly pattern without days_of_week produces one instance per
\* interval weeks on the weekday of the start date: consecutive instances are
\* exactly 7 * interval days apart.
C30_WeeklyWithoutDaysIsEveryIntervalWeeks ==
    (gen.pc = "done" /\ gen.frequency = "weekly" /\ gen.days_of_week = {})
    => /\ Gaps(gen.committed) \subseteq {7 * gen.interval}
       /\ \A i \in DOMAIN gen.committed : Weekday(gen.committed[i].due_date) = Weekday(gen.start_date)

====
